---- MODULE Spec2Model ----
(***************************************************************************)
(* TravelBuddy (src/travelbuddy.py): ResearchAgent.run (collector),        *)
(* PlannerAgent.build_itinerary (scheduler), MemoryBank (file-backed       *)
(* session store) and TravelBuddy.plan_trip (orchestrator).                *)
(*                                                                         *)
(* Python values are modelled as follows.  A dict whose iteration order    *)
(* the code relies on (unique, itinerary) is a sequence of <<key, value>>  *)
(* entries in insertion order; a dict used only by key (preferences, the   *)
(* store) is a function.  Ratings are in tenths, coordinates in            *)
(* micro-degrees.  An ISO date string "YYYY-MM-DD" is the triple           *)
(* <<Y, M, D>>.  A raised exception is a record with ok = FALSE.           *)
(***************************************************************************)
EXTENDS Integers, Sequences, FiniteSets, TLC

VARIABLES
    data,      \* data[i]: MemoryBank.data of TravelBuddy instance i (user id -> session)
    file,      \* content of the JSON file at store_path, or NoFile
    clock,     \* datetime.utcnow(), as a tick counter
    call,      \* arguments of the last operation invoked
    ret        \* what the last operation returned or raised

vars == <<data, file, clock, call, ret>>

-----------------------------------------------------------------------------
(* Bounds of the model *)

MaxInterests == 3      \* longest interests list passed to run / plan_trip
MaxCands == 7          \* longest candidate list passed to build_itinerary
MaxTrips == 2          \* number of plan_trip calls that reach utcnow()

(* Constants of the program *)

TopKEach == 5          \* run(..., top_k_each=5)
OutputCap == 20        \* sorted_places[:20]
CompactCap == 12       \* places[:12]
SlotsPerDay == 3       \* for slot in range(3)

Min(a, b) == IF a <= b THEN a ELSE b
Max(a, b) == IF a >= b THEN a ELSE b

Ok(v) == [ok |-> TRUE, val |-> v]
Raise(e) == [ok |-> FALSE, err |-> e]

-----------------------------------------------------------------------------
(* Insertion-ordered dict: a sequence of <<key, value>> entries. *)

DictKeys(d) == [j \in 1..Len(d) |-> d[j][1]]
DictValues(d) == [j \in 1..Len(d) |-> d[j][2]]
DictHas(d, k) == \E j \in 1..Len(d) : d[j][1] = k

\* d[k] = v where an existing key keeps its first value
DictSetKeepFirst(d, k, v) ==
    IF DictHas(d, k) THEN d ELSE Append(d, <<k, v>>)

\* d[k] = v where every assignment adds an entry
DictSetAppend(d, k, v) == Append(d, <<k, v>>)

\* d[k] = v: an existing key keeps its position and takes the new value,
\* a new key goes to the end
DictSet(d, k, v) ==
    IF DictHas(d, k)
    THEN [j \in 1..Len(d) |-> IF d[j][1] = k THEN <<k, v>> ELSE d[j]]
    ELSE Append(d, <<k, v>>)

\* dict.update on a dict used by key only: q.update(p), old value kept on collision
DictUpdateKeepOld(q, p) ==
    [k \in DOMAIN q \cup DOMAIN p |-> IF k \in DOMAIN q THEN q[k] ELSE p[k]]

\* dict.update on a dict used by key only: q.update(p)
DictUpdate(q, p) ==
    [k \in DOMAIN q \cup DOMAIN p |-> IF k \in DOMAIN p THEN p[k] ELSE q[k]]

-----------------------------------------------------------------------------
(* Lookup capability *)

Place(n, d, r, la, lo, h) ==
    [name |-> n, description |-> d, rating |-> r, lat |-> la, lon |-> lo, hours |-> h]

demo_places ==
    << Place("City Museum", "Popular museum", 46, 40779400, -73963200, "09:00-17:00"),
       Place("Central Park", "Large urban park", 48, 40785091, -73968285, "24/7"),
       Place("Grand Market", "Local market", 45, 40752700, -73977200, "08:00-20:00"),
       Place("Art Gallery", "Contemporary art", 44, 40761400, -73977600, "10:00-18:00") >>

\* demo_places[:top_k], whatever the query
search_tool_stub(query, top_k) == Ok(SubSeq(demo_places, 1, Min(top_k, Len(demo_places))))

Interests == <<"museums", "parks", "markets", "beaches">>
InterestIx(s) == CHOOSE k \in 1..Len(Interests) : Interests[k] = s

CatalogNames ==
    << "P01", "P02", "P03", "P04", "P05", "P06", "P07", "P08", "P09", "P10",
       "P11", "P12", "P13", "P14", "P15", "P16", "P17", "P18", "P19", "P20",
       "P21", "P22", "P23", "P24", "P25", "P26", "P27", "P28", "P29", "P30" >>

\* Other lookup capabilities a caller may pass as search_tool.  A catalog tool
\* answers a query for interest k with top_k consecutive catalog entries
\* starting at stride*(k-1)+1, whose fields depend on the interest, so that
\* windows of different interests overlap in names but not in fields.
CatalogHit(n, k) ==
    Place(CatalogNames[n], Interests[k], 40 + ((n * k) % 4), n, k, Interests[k])

CatalogTool(stride, query, top_k) ==
    LET k == InterestIx(query[2])
        first == stride * (k - 1) + 1
        last == Min(first + top_k - 1, Len(CatalogNames))
    IN  Ok([j \in 1..(last - first + 1) |-> CatalogHit(first + j - 1, k)])

\* a tool that fails on one kind of query
FlakyTool(query, top_k) ==
    IF query[2] = "beaches" THEN Raise("LookupError") ELSE search_tool_stub(query, top_k)

Tools == {"stub", "sparse", "dense", "flaky"}

search_tool(tool, query, top_k) ==
    CASE tool = "stub" -> search_tool_stub(query, top_k)
      [] tool = "sparse" -> CatalogTool(7, query, top_k)
      [] tool = "dense" -> CatalogTool(4, query, top_k)
      [] tool = "flaky" -> FlakyTool(query, top_k)

-----------------------------------------------------------------------------
(* ResearchAgent.run *)

\* the loop over interests: results.extend(hits), aborted by the first raise
RECURSIVE CollectHits(_, _, _, _)
CollectHits(tool, destination, interests, top_k_each) ==
    IF interests = << >> THEN Ok(<< >>)
    ELSE LET hits == search_tool(tool, <<destination, Head(interests)>>, top_k_each)
         IN  IF ~hits.ok THEN hits
             ELSE LET rest == CollectHits(tool, destination, Tail(interests), top_k_each)
                  IN  IF ~rest.ok THEN rest ELSE Ok(hits.val \o rest.val)

\* for r in results: unique[r["name"]] = r
RECURSIVE Dedupe(_, _)
Dedupe(unique, results) ==
    IF results = << >> THEN unique
    ELSE Dedupe(DictSet(unique, Head(results).name, Head(results)), Tail(results))

\* insert p into a list sorted by rating descending, before its equals
InsertBeforeEquals(sorted, p) ==
    LET n == Cardinality({j \in 1..Len(sorted) : sorted[j].rating > p.rating})
    IN  SubSeq(sorted, 1, n) \o <<p>> \o SubSeq(sorted, n + 1, Len(sorted))

\* insert p into a list sorted by rating descending, after its equals
InsertByRating(sorted, p) ==
    LET n == Cardinality({j \in 1..Len(sorted) : sorted[j].rating >= p.rating})
    IN  SubSeq(sorted, 1, n) \o <<p>> \o SubSeq(sorted, n + 1, Len(sorted))

\* sorted(xs, key=rating, reverse=True): a stable sort
RECURSIVE SortByRatingDesc(_)
SortByRatingDesc(xs) ==
    IF xs = << >> THEN << >>
    ELSE InsertByRating(SortByRatingDesc(SubSeq(xs, 1, Len(xs) - 1)), xs[Len(xs)])

\* the six-field projection of a place
Compact(p) == Place(p.name, p.description, p.rating, p.lat, p.lon, p.hours)

run(tool, destination, interests, top_k_each) ==
    LET results == CollectHits(tool, destination, interests, top_k_each)
    IN  IF ~results.ok THEN results
        ELSE LET unique == Dedupe(<< >>, results.val)
                 sorted_places == SortByRatingDesc(DictValues(unique))
                 kept == SubSeq(sorted_places, 1, Min(OutputCap, Len(sorted_places)))
             IN  Ok([j \in 1..Len(kept) |-> Compact(kept[j])])

-----------------------------------------------------------------------------
(* Calendar arithmetic of datetime: fromisoformat, toordinal, fromordinal *)

IsLeap(y) == y % 4 = 0 /\ (y % 100 # 0 \/ y % 400 = 0)
DaysInMonth(y, m) ==
    IF m = 2 THEN (IF IsLeap(y) THEN 29 ELSE 28)
    ELSE IF m \in {4, 6, 9, 11} THEN 30 ELSE 31
RECURSIVE DaysBeforeMonth(_, _)
DaysBeforeMonth(y, m) ==
    IF m = 1 THEN 0 ELSE DaysBeforeMonth(y, m - 1) + DaysInMonth(y, m - 1)
DaysBeforeYear(y) ==
    (y - 1) * 365 + ((y - 1) \div 4) - ((y - 1) \div 100) + ((y - 1) \div 400)

\* datetime.fromisoformat: the date, or ValueError for a string that names no date
fromisoformat(s) ==
    IF /\ s[1] \in 1..9999 /\ s[2] \in 1..12
       /\ s[3] \in 1..DaysInMonth(s[1], s[2])
    THEN Ok(s)
    ELSE Raise("ValueError")

\* date.toordinal: day 1 is 0001-01-01
ToOrdinal(date) == DaysBeforeYear(date[1]) + DaysBeforeMonth(date[1], date[2]) + date[3]

\* date.fromordinal, by 400-, 100-, 4- and 1-year cycles
FromOrdinal(ordinal) ==
    LET n0 == ordinal - 1
        n400 == n0 \div 146097
        r400 == n0 % 146097
        n100 == r400 \div 36524
        r100 == r400 % 36524
        n4 == r100 \div 1461
        r4 == r100 % 1461
        n1 == r4 \div 365
        n == r4 % 365
        year == n400 * 400 + 1 + n100 * 100 + n4 * 4 + n1
        month == CHOOSE m \in 1..12 :
            /\ DaysBeforeMonth(year, m) <= n
            /\ n < DaysBeforeMonth(year, m) + DaysInMonth(year, m)
    IN  IF n1 = 4 \/ n100 = 4 THEN <<year - 1, 12, 31>>
        ELSE <<year, month, n - DaysBeforeMonth(year, month) + 1>>

\* (sd + timedelta(days=d)).date().isoformat()
DayStr(sd, d) == FromOrdinal(ToOrdinal(sd) + d)

-----------------------------------------------------------------------------
(* PlannerAgent.build_itinerary *)

TimeBlocks == <<"09:00-12:00", "12:30-15:00", "15:30-18:00">>

\* asdict(ItineraryItem(day, time_range, place))
ItineraryItem(day, time_range, place) ==
    [day |-> day, time_range |-> time_range, place |-> place]

\* the slot loop with a cursor that restarts at the top of the list every day
RECURSIVE FillSlotsFromTop(_, _, _, _, _)
FillSlotsFromTop(places, index, day_str, slot, items) ==
    IF slot >= SlotsPerDay \/ slot >= Len(places)
    THEN [items |-> items, index |-> index]
    ELSE FillSlotsFromTop(places, index, day_str, slot + 1,
             Append(items, ItineraryItem(day_str, TimeBlocks[slot + 1], places[slot + 1])))

\* for slot in range(3): break when index >= len(places), else append and index += 1
RECURSIVE FillSlots(_, _, _, _, _)
FillSlots(places, index, day_str, slot, items) ==
    IF slot >= SlotsPerDay \/ index >= Len(places)
    THEN [items |-> items, index |-> index]
    ELSE FillSlots(places, index + 1, day_str, slot + 1,
             Append(items, ItineraryItem(day_str, TimeBlocks[slot + 1], places[index + 1])))

\* (ed - sd).days, without the closing day
DayCountExclusive(sd, ed) == ToOrdinal(ed) - ToOrdinal(sd)

\* days = (ed - sd).days + 1
DayCount(sd, ed) == ToOrdinal(ed) - ToOrdinal(sd) + 1

\* for d in range(days): itinerary[day_str] = [] and the slot loop
RECURSIVE BuildDays(_, _, _, _, _, _)
BuildDays(places, sd, days, d, index, itinerary) ==
    IF d >= days THEN itinerary
    ELSE LET day_str == DayStr(sd, d)
             filled == FillSlots(places, index, day_str, 0, << >>)
         IN  BuildDays(places, sd, days, d + 1, filled.index,
                       DictSet(itinerary, day_str, filled.items))

build_itinerary(places, start, end) ==
    LET sd == fromisoformat(start)
        ed == fromisoformat(end)
    IN  IF ~sd.ok THEN sd
        ELSE IF ~ed.ok THEN ed
        ELSE Ok(BuildDays(places, sd.val, DayCount(sd.val, ed.val), 0, 0, << >>))

-----------------------------------------------------------------------------
(* MemoryBank and the JSON file *)

(* A session in memory is [preferences, trips].  The "preferences" entry of a *)
(* trip record is a reference: either to the preferences dict of the session *)
(* that holds the record (ref = TRUE), or to a dict of its own (ref = FALSE, *)
(* val the dict).                                                             *)
SharedPrefs == [ref |-> TRUE, val |-> << >>]
OwnPrefs(p) == [ref |-> FALSE, val |-> p]

\* A JSON object with free keys is the set of its <<key, value>> members.
JsonObject(f) == {<<k, f[k]>> : k \in DOMAIN f}
JsonParseObject(members) ==
    [k \in {m[1] : m \in members} |-> (CHOOSE m \in members : m[1] = k)[2]]

\* json.dump of one session: every reference is written out as the dict it
\* points to at the time of the dump
JsonSession(session) ==
    [preferences |-> JsonObject(session.preferences),
     trips |-> [j \in 1..Len(session.trips) |->
                  [session.trips[j] EXCEPT !.preferences =
                      JsonObject(IF @.ref THEN session.preferences ELSE @.val)]]]

json_dump(d) == JsonObject([u \in DOMAIN d |-> JsonSession(d[u])])

\* json.load: every object of the text becomes a dict of its own
LoadSession(js) ==
    [preferences |-> JsonParseObject(js.preferences),
     trips |-> [j \in 1..Len(js.trips) |->
                  [js.trips[j] EXCEPT !.preferences = OwnPrefs(JsonParseObject(@))]]]

json_load(text) ==
    LET d == JsonParseObject(text) IN [u \in DOMAIN d |-> LoadSession(d[u])]

read_json(f) == IF f.exists THEN json_load(f.text) ELSE << >>

\* a writer that keeps the sessions of users it does not know from the old file
write_json_merge(f, d) ==
    LET old == read_json(f)
        all == [u \in DOMAIN old \cup DOMAIN d |-> IF u \in DOMAIN d THEN d[u] ELSE old[u]]
    IN  [exists |-> TRUE, text |-> json_dump(all)]

\* open(path, "w") and json.dump: the old content is replaced
write_json(f, d) == [exists |-> TRUE, text |-> json_dump(d)]

\* MemoryBank.__init__
MemoryBank(f) == read_json(f)

\* self.data.get(user_id, {"preferences": {}, "trips": []}): the stored session
\* itself for a known user, a new session otherwise
Known(d, user_id) == user_id \in DOMAIN d
get_session(d, user_id) ==
    IF Known(d, user_id) THEN d[user_id] ELSE [preferences |-> << >>, trips |-> << >>]

StoreSet(d, user_id, session) ==
    [u \in DOMAIN d \cup {user_id} |-> IF u = user_id THEN session ELSE d[u]]

\* a save that writes the saved session alone
save_session_alone(d, f, user_id, session) ==
    [data |-> StoreSet(d, user_id, session),
     file |-> write_json(f, StoreSet(<< >>, user_id, session))]

\* self.data[user_id] = session; write_json(self.path, self.data)
save_session(d, f, user_id, session) ==
    LET d2 == StoreSet(d, user_id, session)
    IN  [data |-> d2, file |-> write_json(f, d2)]

-----------------------------------------------------------------------------
(* TravelBuddy.plan_trip *)

\* places[:12]
TopPlaces(places) == SubSeq(places, 1, Min(CompactCap, Len(places)))

\* The state after the call and its outcome.  session["preferences"].update
\* acts on the stored session when the user is known, so it is in d1 whether
\* or not the call goes on to save.
plan_trip(d, f, now, tool, req) ==
    LET session == get_session(d, req.user_id)
        merged == [session EXCEPT !.preferences = DictUpdate(@, req.preferences)]
        d1 == IF Known(d, req.user_id) THEN StoreSet(d, req.user_id, merged) ELSE d
        places == run(tool, req.destination, req.interests, TopKEach)
        top_places == TopPlaces(places.val)
        itinerary == build_itinerary(top_places, req.start_date, req.end_date)
        record == [destination |-> req.destination,
                   start_date |-> req.start_date,
                   end_date |-> req.end_date,
                   itinerary |-> itinerary.val,
                   preferences |-> SharedPrefs,
                   timestamp |-> now]
        session2 == [merged EXCEPT !.trips = Append(@, record)]
        saved == save_session(d1, f, req.user_id, session2)
    IN  IF ~places.ok THEN [data |-> d1, file |-> f, clock |-> now, ret |-> places]
        ELSE IF ~itinerary.ok THEN [data |-> d1, file |-> f, clock |-> now, ret |-> itinerary]
        ELSE [data |-> saved.data, file |-> saved.file, clock |-> now + 1,
              ret |-> Ok([itinerary |-> itinerary.val,
                          places |-> top_places,
                          session |-> session2,
                          summary |-> [destination |-> req.destination,
                                       days |-> Len(itinerary.val),
                                       places_considered |-> Len(top_places),
                                       memory_saved |-> TRUE]])]

-----------------------------------------------------------------------------
(* Sequences of length at most n over S *)
SeqUpTo(S, n) == UNION {[1..m -> S] : m \in 0..n}

Range(s) == {s[j] : j \in 1..Len(s)}

\* os.path.exists(path) is false
NoFile == [exists |-> FALSE, text |-> {}]
Idle == [op |-> "none"]

(* Specification of ResearchAgent.run alone: Init draws the arguments, *)
(* Run applies the function.                                             *)

ResearchInit ==
    /\ data = << >> /\ file = NoFile /\ clock = 0
    /\ call \in [op : {"run"}, tool : Tools, destination : {"Chennai"},
                 interests : SeqUpTo(Range(Interests), MaxInterests),
                 top_k_each : {TopKEach, 8}]
    /\ ret = Idle

Run ==
    /\ call.op = "run" /\ ret = Idle
    /\ ret' = run(call.tool, call.destination, call.interests, call.top_k_each)
    /\ UNCHANGED <<data, file, clock, call>>

ResearchNext == Run

SpecResearch == ResearchInit /\ [][ResearchNext]_vars

-----------------------------------------------------------------------------
(* Specification of PlannerAgent.build_itinerary alone *)

\* date strings around a non-leap February, a year end and a leap February;
\* each season has one string that names no date
DateStrings ==
    { { <<2023, 2, 27>>, <<2023, 2, 28>>, <<2023, 2, 29>>, <<2023, 3, 1>>, <<2023, 3, 2>> },
      { <<2023, 12, 30>>, <<2023, 12, 31>>, <<2023, 12, 32>>, <<2024, 1, 1>>, <<2024, 1, 2>> },
      { <<2024, 2, 27>>, <<2024, 2, 28>>, <<2024, 2, 29>>, <<2024, 2, 30>>, <<2024, 3, 1>> } }

\* candidate lists: a ranked catalog prefix, or the demo places repeated
Candidates(kind, len) ==
    IF kind = "catalog" THEN [j \in 1..len |-> CatalogHit(j, 1)]
    ELSE [j \in 1..len |-> demo_places[((j - 1) % Len(demo_places)) + 1]]

PlannerInit ==
    /\ data = << >> /\ file = NoFile /\ clock = 0
    /\ \E kind \in {"catalog", "demo"}, len \in 0..MaxCands, season \in DateStrings :
          call \in [op : {"build_itinerary"}, places : {Candidates(kind, len)},
                    start : season, end : season]
    /\ ret = Idle

Build ==
    /\ call.op = "build_itinerary" /\ ret = Idle
    /\ ret' = build_itinerary(call.places, call.start, call.end)
    /\ UNCHANGED <<data, file, clock, call>>

PlannerNext == Build

SpecPlanner == PlannerInit /\ [][PlannerNext]_vars

-----------------------------------------------------------------------------
(* Specification of the planner: TravelBuddy instances constructed on the *)
(* same store_path, each planning trips for the users.                    *)

Insts == {1, 2}
Users == {"demo_user", "muhammed123"}

\* what is asked for: the demo search over two days, with a first set of
\* preferences or with one that changes a key of it; the same with a lookup
\* that raises
Requests ==
    { [tool |-> "stub", interests |-> <<"museums", "parks", "markets">>,
       start_date |-> <<2024, 2, 28>>, end_date |-> <<2024, 2, 29>>,
       preferences |-> [diet |-> "vegetarian", max_walk_km |-> "5"]],
      [tool |-> "stub", interests |-> <<"museums", "parks", "markets">>,
       start_date |-> <<2024, 2, 28>>, end_date |-> <<2024, 2, 29>>,
       preferences |-> [diet |-> "veg"]],
      [tool |-> "flaky", interests |-> <<"museums", "beaches">>,
       start_date |-> <<2024, 2, 28>>, end_date |-> <<2024, 2, 29>>,
       preferences |-> [diet |-> "veg"]] }

Init ==
    /\ file = NoFile
    /\ data = [i \in Insts |-> MemoryBank(NoFile)]
    /\ clock = 0
    /\ call = Idle
    /\ ret = Idle

\* TravelBuddy(store_path): instance i is constructed anew on the same path
Construct(i) ==
    /\ data' = [data EXCEPT ![i] = MemoryBank(file)]
    /\ call' = [op |-> "TravelBuddy", inst |-> i]
    /\ ret' = Ok("ready")
    /\ UNCHANGED <<file, clock>>

\* tb.plan_trip(user_id, destination, start_date, end_date, interests, preferences)
PlanTrip(i, user_id, r) ==
    /\ clock < MaxTrips
    /\ \E req \in {[user_id |-> user_id, destination |-> "Chennai",
                    start_date |-> r.start_date, end_date |-> r.end_date,
                    interests |-> r.interests, preferences |-> r.preferences]} :
       \E out \in {plan_trip(data[i], file, clock, r.tool, req)} :
          /\ data' = [data EXCEPT ![i] = out.data]
          /\ file' = out.file
          /\ clock' = out.clock
          /\ call' = [op |-> "plan_trip", inst |-> i, tool |-> r.tool, req |-> req]
          /\ ret' = out.ret

Next ==
    \/ \E i \in Insts : Construct(i)
    \/ \E i \in Insts, u \in Users, r \in Requests : PlanTrip(i, u, r)

Spec == Init /\ [][Next]_vars

-----------------------------------------------------------------------------
(* Specification of one plan_trip call on a new store, over any lookup *)
(* capability, interests and dates.                                     *)

TripInit ==
    /\ file = NoFile
    /\ data = [i \in Insts |-> MemoryBank(NoFile)]
    /\ clock = 0
    /\ \E season \in DateStrings :
          call \in [op : {"plan_trip"}, inst : {1}, tool : Tools,
                    req : [user_id : {"demo_user"}, destination : {"Chennai"},
                           start_date : season, end_date : season,
                           interests : SeqUpTo(Range(Interests), MaxInterests),
                           preferences : {[diet |-> "veg"]}]]
    /\ ret = Idle

PlanOnce ==
    /\ call.op = "plan_trip" /\ ret = Idle
    /\ \E out \in {plan_trip(data[call.inst], file, clock, call.tool, call.req)} :
          /\ data' = [data EXCEPT ![call.inst] = out.data]
          /\ file' = out.file
          /\ clock' = out.clock
          /\ ret' = out.ret
    /\ UNCHANGED call

TripNext == PlanOnce

SpecTrip == TripInit /\ [][TripNext]_vars

-----------------------------------------------------------------------------
(* Properties of ResearchAgent.run *)

\* the merged lookup results of the call, in interest order
Merged == CollectHits(call.tool, call.destination, call.interests, call.top_k_each).val
RunReturned == call.op = "run" /\ ret # Idle /\ ret.ok

NamesOf(s) == {s[j].name : j \in 1..Len(s)}
FirstIndex(s, n) == CHOOSE j \in 1..Len(s) :
    s[j].name = n /\ \A h \in 1..(j - 1) : s[h].name # n
LastIndex(s, n) == CHOOSE j \in 1..Len(s) :
    s[j].name = n /\ \A h \in (j + 1)..Len(s) : s[h].name # n
NoNameTwice(s) == \A a, b \in 1..Len(s) : s[a].name = s[b].name => a = b
CarriesLast(out, m) ==
    \A j \in 1..Len(out) :
        LET l == m[LastIndex(m, out[j].name)]
        IN  /\ out[j].name \in NamesOf(m)
            /\ out[j].description = l.description /\ out[j].rating = l.rating
            /\ out[j].lat = l.lat /\ out[j].lon = l.lon /\ out[j].hours = l.hours

\* C1 as stated: the output of run holds every distinct name of the merged
\* lookup results exactly once, each with the fields of the last record of
\* that name.
C1_EveryNameOnce ==
    RunReturned =>
        /\ NoNameTwice(ret.val)
        /\ NamesOf(ret.val) = NamesOf(Merged)
        /\ CarriesLast(ret.val, Merged)

\* C1 amended: the output of run holds no name twice, holds every distinct
\* name of the merged lookup results when there are at most 20 of them (and
\* 20 of them otherwise), and each emitted record has the fields of the last
\* record of its name.
C1_NamesOnceLastWins ==
    RunReturned =>
        /\ NoNameTwice(ret.val)
        /\ NamesOf(ret.val) \subseteq NamesOf(Merged)
        /\ Cardinality(NamesOf(Merged)) <= OutputCap => NamesOf(ret.val) = NamesOf(Merged)
        /\ Cardinality(NamesOf(ret.val)) = Min(OutputCap, Cardinality(NamesOf(Merged)))
        /\ CarriesLast(ret.val, Merged)

\* a run whose merged results repeat a name with different fields
C1_Witness ==
    /\ RunReturned
    /\ \E a, b \in 1..Len(Merged) :
          a < b /\ Merged[a].name = Merged[b].name /\ Merged[a] # Merged[b]
             /\ Merged[a].name \in NamesOf(ret.val)

\* x ranks before y: higher rating, or equal rating and first inserted earlier
RanksBefore(m, x, y) ==
    LET rx == m[LastIndex(m, x)].rating
        ry == m[LastIndex(m, y)].rating
    IN  rx > ry \/ (rx = ry /\ FirstIndex(m, x) < FirstIndex(m, y))

\* C2: the output of run is sorted by rating descending, places of equal
\* rating are in the order in which their names first occur in the merged
\* lookup results, and the output is the first 20 places of that order.
C2_SortedStableCapped ==
    RunReturned =>
        LET out == ret.val
        IN  /\ \A j \in 1..(Len(out) - 1) : out[j].rating >= out[j + 1].rating
            /\ \A a, b \in 1..Len(out) :
                  (a < b /\ out[a].rating = out[b].rating)
                      => FirstIndex(Merged, out[a].name) < FirstIndex(Merged, out[b].name)
            /\ Len(out) <= OutputCap
            /\ Len(out) = Min(OutputCap, Cardinality(NamesOf(Merged)))
            /\ \A x \in NamesOf(Merged) \ NamesOf(out) :
                  \A j \in 1..Len(out) : RanksBefore(Merged, out[j].name, x)

\* a run with more than 20 distinct names, in whose output a place stands
\* before a place of equal rating although its last record came later
C2_Witness ==
    /\ RunReturned
    /\ Cardinality(NamesOf(Merged)) > OutputCap
    /\ \E a, b \in 1..Len(ret.val) :
          /\ a < b /\ ret.val[a].rating = ret.val[b].rating
          /\ LastIndex(Merged, ret.val[a].name) > LastIndex(Merged, ret.val[b].name)

-----------------------------------------------------------------------------
(* Properties of PlannerAgent.build_itinerary *)

BuildReturned == call.op = "build_itinerary" /\ ret # Idle

\* calendar dates and their order, read off the date string
IsCalendarDate(t) ==
    /\ t[2] \in 1..12
    /\ t[3] >= 1
    /\ t[3] <= (CASE t[2] \in {1, 3, 5, 7, 8, 10, 12} -> 31
                  [] t[2] \in {4, 6, 9, 11} -> 30
                  [] OTHER -> IF t[1] % 4 = 0 /\ (t[1] % 100 # 0 \/ t[1] % 400 = 0)
                              THEN 29 ELSE 28)
DateBefore(a, b) ==
    \/ a[1] < b[1]
    \/ a[1] = b[1] /\ a[2] < b[2]
    \/ a[1] = b[1] /\ a[2] = b[2] /\ a[3] < b[3]
DatesBetween(a, b) ==
    {t \in (a[1]..b[1]) \X (1..12) \X (1..31) :
        IsCalendarDate(t) /\ ~DateBefore(t, a) /\ ~DateBefore(b, t)}
DayCountOfCall == Cardinality(DatesBetween(call.start, call.end))

RECURSIVE VisitedPlaces(_)
VisitedPlaces(itinerary) ==
    IF itinerary = << >> THEN << >>
    ELSE [j \in 1..Len(itinerary[1][2]) |-> itinerary[1][2][j].place]
            \o VisitedPlaces(Tail(itinerary))

\* C3: over N >= 1 days the visits, read day by day, are the first min(L, 3N)
\* candidates in input order; day d (0-based) holds min(3, max(0, L - 3d))
\* visits, in the leading time blocks, each dated with its day.
C3_ConsumedInRankOrder ==
    (BuildReturned /\ ret.ok /\ DayCountOfCall >= 1) =>
        LET it == ret.val
            L == Len(call.places)
            N == DayCountOfCall
        IN  /\ Len(it) = N
            /\ VisitedPlaces(it) = SubSeq(call.places, 1, Min(L, 3 * N))
            /\ \A d \in 0..(N - 1) :
                  LET items == it[d + 1][2]
                  IN  /\ Len(items) = Min(3, Max(0, L - 3 * d))
                      /\ \A j \in 1..Len(items) :
                            /\ items[j].time_range =
                                  <<"09:00-12:00", "12:30-15:00", "15:30-18:00">>[j]
                            /\ items[j].day = it[d + 1][1]
            /\ (L >= 3 * N) => \A d \in 1..N : Len(it[d][2]) = 3
            /\ (L = 1) => /\ Len(it[1][2]) = 1
                          /\ it[1][2][1].time_range = "09:00-12:00"
                          /\ \A d \in 2..N : it[d][2] = << >>

\* seven candidates over three days: two full days, one visit on the third
C3_Witness ==
    /\ BuildReturned /\ ret.ok
    /\ Len(call.places) = 7 /\ DayCountOfCall = 3
    /\ Len(ret.val[3][2]) = 1

\* C4: for calendar dates start and end the call returns, without error, an
\* itinerary whose keys are exactly the dates from start to end inclusive,
\* once each, in ascending order, whatever the candidates; one key when
\* start = end, none when end is before start.
C4_KeysAreTheDateRange ==
    (BuildReturned /\ IsCalendarDate(call.start) /\ IsCalendarDate(call.end)) =>
        /\ ret.ok
        /\ LET keys == DictKeys(ret.val)
           IN  /\ \A j \in 1..(Len(keys) - 1) : DateBefore(keys[j], keys[j + 1])
               /\ Range(keys) = DatesBetween(call.start, call.end)
               /\ (call.start = call.end) => Len(keys) = 1
               /\ DateBefore(call.end, call.start) => ret.val = << >>

\* a range over a leap day with fewer candidates than days
C4_Witness ==
    /\ BuildReturned /\ ret.ok
    /\ call.start = <<2024, 2, 28>> /\ call.end = <<2024, 3, 1>>
    /\ Len(call.places) = 2
    /\ DictKeys(ret.val) = << <<2024, 2, 28>>, <<2024, 2, 29>>, <<2024, 3, 1>> >>

-----------------------------------------------------------------------------
(* Properties of TravelBuddy.plan_trip and MemoryBank *)

PlanReturned == call.op = "plan_trip" /\ ret # Idle /\ ret.ok
\* the step is a plan_trip call that returned / that raised
PlanSucceeds == call'.op = "plan_trip" /\ ret'.ok
PlanRaises == call'.op = "plan_trip" /\ ~ret'.ok

RECURSIVE Visits(_)
Visits(itinerary) ==
    IF itinerary = << >> THEN << >> ELSE itinerary[1][2] \o Visits(Tail(itinerary))

\* C5: in the itinerary returned by plan_trip no place name is visited twice,
\* every visited place is an entry of the returned places, and there are at
\* most 12 of those.
C5_NoPlaceTwice ==
    PlanReturned =>
        LET v == Visits(ret.val.itinerary)
        IN  /\ \A a, b \in 1..Len(v) : v[a].place.name = v[b].place.name => a = b
            /\ \A a \in 1..Len(v) : v[a].place \in Range(ret.val.places)
            /\ Len(ret.val.places) <= 12

\* a call whose lookups repeat names and give more than 12 distinct ones, with
\* days enough to visit all 12 places
C5_Witness ==
    /\ PlanReturned
    /\ LET m == CollectHits(call.tool, call.req.destination, call.req.interests, TopKEach).val
       IN  /\ Cardinality(NamesOf(m)) > 12
           /\ Len(m) > Cardinality(NamesOf(m))
    /\ Len(Visits(ret.val.itinerary)) = 12

\* the content of a session: its preferences and its trip records, each with
\* the preferences it shows
RecordContent(session, j) ==
    [session.trips[j] EXCEPT !.preferences = IF @.ref THEN session.preferences ELSE @.val]
TripsContent(session) == [j \in 1..Len(session.trips) |-> RecordContent(session, j)]
Content(session) == [preferences |-> session.preferences, trips |-> TripsContent(session)]
StoreContent(d) == [u \in DOMAIN d |-> Content(d[u])]
IsPrefix(s, t) == Len(s) <= Len(t) /\ \A j \in 1..Len(s) : s[j] = t[j]

\* the session the instance holds for the user, or the empty one
SessionOf(d, u) == IF u \in DOMAIN d THEN d[u] ELSE [preferences |-> << >>, trips |-> << >>]

\* C6: a plan_trip call that returns leaves the user's session with the
\* preferences P of the call, the other keys of the preferences Q it had
\* before, and nothing else.
C6_PreferencesMerged ==
    [][PlanSucceeds =>
        LET i == call'.inst
            u == call'.req.user_id
            P == call'.req.preferences
            Q == SessionOf(data[i], u).preferences
            R == data'[i][u].preferences
        IN  /\ DOMAIN R = DOMAIN P \cup DOMAIN Q
            /\ \A k \in DOMAIN P : R[k] = P[k]
            /\ \A k \in DOMAIN Q \ DOMAIN P : R[k] = Q[k]
            /\ ret'.val.session.preferences = R]_vars

\* a call that changed "diet" and kept "max_walk_km" in a session loaded
\* from the file
C6_Witness ==
    /\ PlanReturned
    /\ call.req.preferences = [diet |-> "veg"]
    /\ LET s == data[call.inst][call.req.user_id]
       IN  /\ s.preferences = [diet |-> "veg", max_walk_km |-> "5"]
           /\ Len(s.trips) = 2
           /\ ~s.trips[1].preferences.ref

\* the trips of user u in the file
FileTrips(f, u) ==
    IF f.exists /\ u \in {m[1] : m \in f.text}
    THEN (CHOOSE m \in f.text : m[1] = u)[2].trips
    ELSE << >>
FileRecordContent(r) ==
    [r EXCEPT !.preferences = [k \in {m[1] : m \in @} |-> (CHOOSE m \in @ : m[1] = k)[2]]]
FileTripsContent(f, u) == [j \in 1..Len(FileTrips(f, u)) |-> FileRecordContent(FileTrips(f, u)[j])]

\* C7: over the plan_trip calls of an instance the trips of a user only grow
\* at the end, by one record per call that returns, and the records already
\* there keep their content, in memory and (where the file agreed with the
\* instance before the call) in the file.
C7_TripsAppendOnly ==
    [][call'.op = "plan_trip" =>
        LET i == call'.inst
        IN  \A u \in DOMAIN data[i] :
              LET before == TripsContent(data[i][u])
                  after == TripsContent(SessionOf(data'[i], u))
              IN  /\ IsPrefix(before, after)
                  /\ Len(after) = Len(before) +
                        (IF PlanSucceeds /\ call'.req.user_id = u THEN 1 ELSE 0)
                  /\ FileTripsContent(file, u) = before
                        => IsPrefix(before, FileTripsContent(file', u))]_vars

\* C10: a plan_trip call that raises leaves the file and the content of every
\* session in memory as they were.
C10_FailedCallChangesNothing ==
    [][PlanRaises =>
        /\ file' = file
        /\ \A i \in Insts : StoreContent(data'[i]) = StoreContent(data[i])]_vars

\* what the file holds, read member by member
FileUsers(f) == IF f.exists THEN {m[1] : m \in f.text} ELSE {}
FilePreferences(f, u) ==
    LET ms == (CHOOSE m \in f.text : m[1] = u)[2].preferences
    IN  [k \in {m[1] : m \in ms} |-> (CHOOSE m \in ms : m[1] = k)[2]]
FileContent(f, u) == [preferences |-> FilePreferences(f, u), trips |-> FileTripsContent(f, u)]

\* C8: after the save of a plan_trip call the file holds exactly the sessions
\* the instance has in memory, each with its content; the sessions of the
\* other users in that memory are as before; and a MemoryBank constructed on
\* the file gives the saved user a session of the same content.
C8_SaveRoundTrip ==
    [][PlanSucceeds =>
        LET i == call'.inst
            u == call'.req.user_id
        IN  /\ file'.exists
            /\ FileUsers(file') = DOMAIN data'[i]
            /\ \A v \in DOMAIN data'[i] : FileContent(file', v) = Content(data'[i][v])
            /\ \A v \in DOMAIN data[i] \ {u} :
                  v \in DOMAIN data'[i] /\ Content(data'[i][v]) = Content(data[i][v])
            /\ Content(get_session(MemoryBank(file'), u)) = Content(data'[i][u])
            /\ Content(ret'.val.session) = Content(data'[i][u])]_vars

\* a save by an instance that holds a session of each user
C8_Witness ==
    /\ PlanReturned
    /\ DOMAIN data[call.inst] = Users
    /\ FileUsers(file) = Users
    /\ \A u \in Users : Len(FileTrips(file, u)) = 1

\* trips, named by user and timestamp
MemStamps(d) ==
    UNION {{<<u, d[u].trips[j].timestamp>> : j \in 1..Len(d[u].trips)} : u \in DOMAIN d}
FileStamps(f) ==
    UNION {{<<u, FileTrips(f, u)[j].timestamp>> : j \in 1..Len(FileTrips(f, u))} :
              u \in FileUsers(f)}

\* C9: instances on the same file are not coordinated.  An operation of one
\* instance leaves the memory of the others as it was; a plan_trip call works
\* on what its instance already held, not on the file; and after its save the
\* file holds the trips its instance held and the new one, and no others.
C9_LastWriterWins ==
    [][/\ \A j \in Insts \ {call'.inst} : data'[j] = data[j]
       /\ call'.op = "plan_trip" =>
             LET i == call'.inst
                 new == {<<call'.req.user_id, clock>>}
             IN  /\ MemStamps(data'[i]) \subseteq MemStamps(data[i]) \cup new
                 /\ DOMAIN data'[i] \subseteq DOMAIN data[i] \cup {call'.req.user_id}
                 /\ PlanSucceeds => FileStamps(file') = MemStamps(data[i]) \cup new]_vars

\* the lost update: an instance saved a trip of its own, the other instance
\* has saved since, and the trip is not in the file
C9_Witness ==
    /\ PlanReturned
    /\ \E i \in Insts \ {call.inst} : \E u \in DOMAIN data[i] :
          \E j \in 1..Len(data[i][u].trips) :
             /\ data[i][u].trips[j].preferences.ref
             /\ <<u, data[i][u].trips[j].timestamp>> \notin FileStamps(file)

====
